---- MODULE Spec2Model ----
(***************************************************************************)
(* Authentication and resource-ownership core of the portfolio backend:    *)
(* the credential store (models/User), the auth routes (routes/auth.js),   *)
(* the auth middleware (middleware/auth.js) and the ownership-gated task   *)
(* routes (routes/tasks).  Times are milliseconds, as Date.now() gives.    *)
(***************************************************************************)
EXTENDS Integers, Naturals, Sequences, FiniteSets, TLC

VARIABLES users, now, ticks, issued, issuedTo, bearer, res, streak,
          tasks, treq, inflight

vars == <<users, now, ticks, issued, issuedTo, bearer, res, streak, tasks, treq, inflight>>

(***************************************************************************)
(* Bounds of the model                                                     *)
(***************************************************************************)
MaxTokens == 2

MaxTicks == 3

MaxTasks == 2

MaxInflight == 2

MaxUsers == 2

MaxSubtasks == 1

(***************************************************************************)
(* Program constants                                                       *)
(***************************************************************************)
Null == -1

NoId == 0

LockThreshold == 5

LockDurationMs == 2 * 60 * 60 * 1000

VerifyExpiresInMs == 24 * 60 * 60 * 1000

CooldownSeconds == 60

JwtExpiresInSec == 7 * 24 * 60 * 60

Emails == {"a@x.io", "b@x.io"}

\* The emails identities are created with; requests name every email.
NewEmails == {"a@x.io"}

Passwords == {"Passw0rd", "Wr0ngPass"}

\* The passwords identities are created with; logins try every password.
NewPasswords == {"Passw0rd"}

Ids == 1..Cardinality(NewEmails)

Tokens == 1..MaxTokens

\* Steps by which the clock advances between two requests: 59.999 s (one
\* inside the resend cooldown, two beyond it), the lock duration, the token
\* expiry.
TickSteps == {59999, LockDurationMs, VerifyExpiresInMs}

(***************************************************************************)
(* Hashing.  Both hashes are one-way and collision-free on the model's     *)
(* domain; neither is the identity.                                        *)
(***************************************************************************)
Sha256(t) == t + 1000

BcryptHash(p) == <<"bcrypt12", p>>

comparePassword(u, candidate) == u.password = BcryptHash(candidate)

\* Everything a client may put in the token query parameter: the plaintext
\* tokens, and the stored hashes themselves.
TokenInputs == Tokens \cup {Sha256(t) : t \in Tokens}

(***************************************************************************)
(* Credential store                                                        *)
(***************************************************************************)
NewUser(email, password, role) ==
    [email |-> email, password |-> BcryptHash(password), role |-> role,
     isActive |-> TRUE, isVerified |-> FALSE,
     verifyToken |-> Null, verifyExpires |-> Null,
     lastVerificationSent |-> Null, lastLogin |-> Null,
     loginAttempts |-> 0, lockUntil |-> Null]

findOneByEmail(email) ==
    IF \E i \in DOMAIN users : users[i].email = email
    THEN CHOOSE i \in DOMAIN users : users[i].email = email
    ELSE NoId

findOneAdmin ==
    IF \E i \in DOMAIN users : users[i].role = "admin"
    THEN CHOOSE i \in DOMAIN users : users[i].role = "admin"
    ELSE NoId

NextId == Cardinality(DOMAIN users) + 1

\* isLocked with the comparison turned round
isLocked_flipped(u, t) == u.lockUntil # Null /\ u.lockUntil < t

isLocked(u, t) == u.lockUntil # Null /\ u.lockUntil > t

\* incLoginAttempts locking one attempt late (> for >=)
incLoginAttempts_late(u, t) ==
    IF u.lockUntil # Null /\ u.lockUntil < t
    THEN [u EXCEPT !.lockUntil = Null, !.loginAttempts = 1]
    ELSE IF u.loginAttempts + 1 > LockThreshold /\ ~isLocked(u, t)
         THEN [u EXCEPT !.loginAttempts = @ + 1, !.lockUntil = t + LockDurationMs]
         ELSE [u EXCEPT !.loginAttempts = @ + 1]

incLoginAttempts(u, t) ==
    IF u.lockUntil # Null /\ u.lockUntil < t
    THEN [u EXCEPT !.lockUntil = Null, !.loginAttempts = 1]
    ELSE IF u.loginAttempts + 1 >= LockThreshold /\ ~isLocked(u, t)
         THEN [u EXCEPT !.loginAttempts = @ + 1, !.lockUntil = t + LockDurationMs]
         ELSE [u EXCEPT !.loginAttempts = @ + 1]

\* resetLoginAttempts that forgets to unset lockUntil
resetLoginAttempts_keepLock(u, t) ==
    [u EXCEPT !.loginAttempts = 0, !.lastLogin = t]

resetLoginAttempts(u, t) ==
    [u EXCEPT !.loginAttempts = 0, !.lockUntil = Null, !.lastLogin = t]

\* the verification gate of login left out
emailNotVerified_off(u) == FALSE

\* login: "Ensure email is verified before allowing login"
emailNotVerified(u) == ~u.isVerified

\* the short-circuit left out
alreadyVerified_off(u) == FALSE

\* verify-email: the short-circuit for an identity that is already verified
alreadyVerified(u) == u.isVerified

\* verify-email: no stored token, or a stored token without expiry
noStoredToken(u) == u.verifyToken = Null \/ u.verifyExpires = Null

\* the expiry test left out
tokenRejected_noExpiry(u, token, t) == Sha256(token) # u.verifyToken

\* verify-email: the supplied token does not hash to the stored hash, or the
\* stored expiry has passed
tokenRejected(u, token, t) == Sha256(token) # u.verifyToken \/ u.verifyExpires < t

\* the elapsed time left in milliseconds
ResendElapsed_ms(u, t) == t - u.lastVerificationSent

\* resend-verification: whole seconds since the last issuance
ResendElapsed(u, t) == (t - u.lastVerificationSent) \div 1000

inCooldown(u, t) ==
    u.lastVerificationSent # Null /\ ResendElapsed(u, t) < CooldownSeconds

\* a re-issue that keeps the hash already stored
generateVerificationToken_keep(u, plain, t) ==
    [u EXCEPT !.verifyToken = IF @ = Null THEN Sha256(plain) ELSE @,
              !.verifyExpires = t + VerifyExpiresInMs,
              !.lastVerificationSent = t]

generateVerificationToken(u, plain, t) ==
    [u EXCEPT !.verifyToken = Sha256(plain),
              !.verifyExpires = t + VerifyExpiresInMs,
              !.lastVerificationSent = t]

(***************************************************************************)
(* Bearer tokens (jsonwebtoken): the payload and the expiry in seconds     *)
(***************************************************************************)
\* The signature jsonwebtoken computes over a payload with the server's
\* secret: a function of the payload only, different for different payloads.
HmacSha256(userId, exp) == 7 * (exp * 10 + userId) + 3

NoJwt == [userId |-> NoId, exp |-> 0, sig |-> 0]

\* A bearer value that is not a well-formed token at all.
MalformedJwt == [userId |-> NoId, exp |-> 0, sig |-> -1]

generateToken(id, t) ==
    LET exp == (t \div 1000) + JwtExpiresInSec
    IN [userId |-> id, exp |-> exp, sig |-> HmacSha256(id, exp)]

\* jwt.verify that does not look at the signature
jwtVerify_unsigned(jwt, t) ==
    IF (t \div 1000) >= jwt.exp THEN "TokenExpiredError" ELSE ""

\* jwt.verify(token, secret): the name of the error it throws, "" when it
\* returns the payload.  The signature is verified before the expiry.
jwtVerify(jwt, t) ==
    IF jwt.sig # HmacSha256(jwt.userId, jwt.exp) THEN "JsonWebTokenError"
    ELSE IF (t \div 1000) >= jwt.exp THEN "TokenExpiredError"
    ELSE ""

(***************************************************************************)
(* Responses                                                               *)
(***************************************************************************)
NoRes ==
    [op |-> "none", email |-> "", password |-> "", token |-> 0, user |-> NoId,
     status |-> 0, error |-> "", redirect |-> "", retryAfter |-> 0,
     jwt |-> NoJwt, mailed |-> "", newToken |-> NoJwt]

\* a handler that answers 500 when the mailer rejects
mailCaught_propagates(status, mailOk) == IF mailOk THEN status ELSE 500

\* try { await sendVerificationEmail(...) } catch (mailErr) { console.warn }:
\* the status the handler goes on to answer with, whether the mailer
\* resolved or rejected
mailCaught(status, mailOk) == status

\* What became of the verification mail of the request
Mailed(mailOk) == IF mailOk THEN "sent" ELSE "failed"

Reply(op, email, status, error) ==
    [NoRes EXCEPT !.op = op, !.email = email, !.status = status, !.error = error]

\* Responses of the task routes: the identity and session the middleware
\* resolved, the task the request named, and the task the handler returned.
NoTaskRes ==
    [op |-> "none", user |-> NoId, sessionId |-> "", id |-> 0,
     status |-> 0, error |-> "", task |-> 0]

\* The identity is in the state the lockout claims start from.
FreshUnlocked(u) ==
    u.isVerified /\ u.isActive /\ u.lockUntil = Null /\ u.loginAttempts = 0

\* History kept beside the store: streak[i] in 0..LockThreshold is the number
\* of consecutive wrong-password logins on identity i, with no other request
\* on i in between, since i was verified, active and Unlocked with
\* loginAttempts = 0; LockThreshold + 1 marks the login that followed such a
\* run and was answered while i was locked; -1 is any other history.

StreakTouch(i, us) ==
    [streak EXCEPT ![i] = IF i \in DOMAIN us /\ FreshUnlocked(us[i]) THEN 0 ELSE -1]

(***************************************************************************)
(* Initial state: an empty store                                           *)
(***************************************************************************)
Init ==
    /\ users = <<>>
    /\ now = 0
    /\ ticks = 0
    /\ issued = 0
    /\ issuedTo = [t \in Tokens |-> NoId]
    /\ bearer = [i \in Ids |-> NoJwt]
    /\ res = NoRes
    /\ streak = [i \in Ids |-> -1]
    /\ tasks = <<>>
    /\ treq = NoTaskRes
    /\ inflight = <<>>

(***************************************************************************)
(* The clock                                                               *)
(***************************************************************************)
Tick(d) ==
    /\ ticks < MaxTicks
    /\ now' = now + d
    /\ ticks' = ticks + 1
    /\ UNCHANGED <<users, issued, issuedTo, bearer, res, streak, tasks, treq, inflight>>

(***************************************************************************)
(* POST /api/auth/register                                                 *)
(***************************************************************************)
Register(email, password) ==
    /\ UNCHANGED <<now, ticks, tasks, treq, inflight>>
    /\ IF findOneByEmail(email) # NoId
       THEN /\ res' = [Reply("register", email, 400, "USER_EXISTS") EXCEPT !.password = password]
            /\ UNCHANGED <<users, issued, issuedTo, bearer, streak>>
       ELSE /\ NextId \in DOMAIN bearer
            /\ issued < MaxTokens
            /\ LET id == NextId
                   plain == issued + 1
                   u == generateVerificationToken(NewUser(email, password, "user"), plain, now)
                   jwt == generateToken(id, now)
               IN /\ users' = (id :> u) @@ users
                  /\ issued' = plain
                  /\ issuedTo' = [issuedTo EXCEPT ![plain] = id]
                  /\ bearer' = [bearer EXCEPT ![id] = jwt]
                  /\ streak' = StreakTouch(id, users')
                  /\ \E mailOk \in BOOLEAN :
                        res' = [Reply("register", email, mailCaught(201, mailOk), "") EXCEPT
                                   !.password = password, !.user = id,
                                   !.mailed = Mailed(mailOk)]

(***************************************************************************)
(* POST /api/auth/login                                                    *)
(***************************************************************************)
Login(email, password) ==
    /\ UNCHANGED <<now, ticks, issued, issuedTo, tasks, treq, inflight>>
    /\ LET id == findOneByEmail(email)
           rq == [Reply("login", email, 0, "") EXCEPT !.password = password]
       IN IF id = NoId
          THEN /\ res' = [rq EXCEPT !.status = 401, !.error = "INVALID_CREDENTIALS"]
               /\ UNCHANGED <<users, bearer, streak>>
          ELSE LET u == users[id] IN
               IF emailNotVerified(u)
               THEN /\ res' = [rq EXCEPT !.status = 403, !.error = "EMAIL_NOT_VERIFIED"]
                    /\ UNCHANGED <<users, bearer>>
                    /\ streak' = StreakTouch(id, users)
               ELSE IF isLocked(u, now)
               THEN /\ res' = [rq EXCEPT !.status = 423, !.error = "ACCOUNT_LOCKED"]
                    /\ UNCHANGED <<users, bearer>>
                    /\ streak' = IF streak[id] = LockThreshold
                                 THEN [streak EXCEPT ![id] = LockThreshold + 1]
                                 ELSE StreakTouch(id, users)
               ELSE IF ~u.isActive
               THEN /\ res' = [rq EXCEPT !.status = 401, !.error = "ACCOUNT_DEACTIVATED"]
                    /\ UNCHANGED <<users, bearer>>
                    /\ streak' = StreakTouch(id, users)
               ELSE IF ~comparePassword(u, password)
               THEN /\ users' = [users EXCEPT ![id] = incLoginAttempts(u, now)]
                    /\ res' = [rq EXCEPT !.status = 401, !.error = "INVALID_CREDENTIALS"]
                    /\ streak' = [streak EXCEPT ![id] =
                                     IF @ >= 0 /\ @ < LockThreshold THEN @ + 1 ELSE -1]
                    /\ UNCHANGED bearer
               ELSE LET jwt == generateToken(id, now) IN
                    /\ users' = [users EXCEPT ![id] = resetLoginAttempts(u, now)]
                    /\ bearer' = [bearer EXCEPT ![id] = jwt]
                    /\ streak' = StreakTouch(id, users')
                    /\ res' = [rq EXCEPT !.status = 200, !.user = id]

(***************************************************************************)
(* POST /api/auth/create-admin (outside production)                        *)
(***************************************************************************)
CreateAdmin(email, password) ==
    /\ UNCHANGED <<now, ticks, issued, issuedTo, tasks, treq, inflight>>
    /\ LET rq == [Reply("create-admin", email, 0, "") EXCEPT !.password = password] IN
       IF findOneAdmin # NoId
       THEN /\ res' = [rq EXCEPT !.status = 400, !.error = "ADMIN_EXISTS"]
            /\ UNCHANGED <<users, bearer, streak>>
       ELSE IF findOneByEmail(email) # NoId
       THEN \* the unique index on email rejects the save of User.createAdmin
            /\ res' = [rq EXCEPT !.status = 500, !.error = "ADMIN_CREATION_ERROR"]
            /\ UNCHANGED <<users, bearer, streak>>
       ELSE /\ NextId \in DOMAIN bearer
            /\ LET id == NextId
                   u == [NewUser(email, password, "admin") EXCEPT !.isVerified = TRUE]
                   jwt == generateToken(id, now)
               IN /\ users' = (id :> u) @@ users
                  /\ bearer' = [bearer EXCEPT ![id] = jwt]
                  /\ streak' = StreakTouch(id, users')
                  /\ res' = [rq EXCEPT !.status = 201, !.user = id]

(***************************************************************************)
(* GET /api/auth/verify-email                                              *)
(***************************************************************************)
VerifyEmail(email, token) ==
    /\ UNCHANGED <<now, ticks, issued, issuedTo, bearer, tasks, treq, inflight>>
    /\ LET id == findOneByEmail(email)
           rq == [Reply("verify-email", email, 0, "") EXCEPT !.token = token]
       IN IF id = NoId
          THEN /\ res' = [rq EXCEPT !.status = 404, !.error = "USER_NOT_FOUND"]
               /\ UNCHANGED <<users, streak>>
          ELSE LET u == users[id] IN
               IF alreadyVerified(u)
               THEN /\ res' = [rq EXCEPT !.status = 302, !.redirect = "/verify-success.html"]
                    /\ UNCHANGED users
                    /\ streak' = StreakTouch(id, users)
               ELSE IF noStoredToken(u)
               THEN /\ res' = [rq EXCEPT !.status = 400, !.error = "NO_TOKEN"]
                    /\ UNCHANGED users
                    /\ streak' = StreakTouch(id, users)
               ELSE IF tokenRejected(u, token, now)
               THEN /\ res' = [rq EXCEPT !.status = 302, !.redirect = "/verify-failed.html"]
                    /\ UNCHANGED users
                    /\ streak' = StreakTouch(id, users)
               ELSE /\ users' = [users EXCEPT ![id] =
                                   [u EXCEPT !.isVerified = TRUE, !.verifyToken = Null,
                                             !.verifyExpires = Null]]
                    /\ streak' = StreakTouch(id, users')
                    /\ res' = [rq EXCEPT !.status = 302, !.redirect = "/verify-success.html",
                                         !.user = id]

(***************************************************************************)
(* POST /api/auth/resend-verification                                      *)
(***************************************************************************)
ResendVerification(email) ==
    /\ UNCHANGED <<now, ticks, bearer, tasks, treq, inflight>>
    /\ LET id == findOneByEmail(email)
           rq == Reply("resend-verification", email, 0, "")
       IN IF id = NoId
          THEN /\ res' = [rq EXCEPT !.status = 404, !.error = "USER_NOT_FOUND"]
               /\ UNCHANGED <<users, issued, issuedTo, streak>>
          ELSE LET u == users[id] IN
               IF u.isVerified
               THEN /\ res' = [rq EXCEPT !.status = 400, !.error = "ALREADY_VERIFIED"]
                    /\ UNCHANGED <<users, issued, issuedTo>>
                    /\ streak' = StreakTouch(id, users)
               ELSE IF inCooldown(u, now)
               THEN /\ res' = [rq EXCEPT !.status = 429, !.error = "TOO_MANY_REQUESTS",
                                         !.retryAfter = CooldownSeconds - ResendElapsed(u, now)]
                    /\ UNCHANGED <<users, issued, issuedTo>>
                    /\ streak' = StreakTouch(id, users)
               ELSE /\ issued < MaxTokens
                    /\ LET plain == issued + 1 IN
                       /\ users' = [users EXCEPT ![id] = generateVerificationToken(u, plain, now)]
                       /\ issued' = plain
                       /\ issuedTo' = [issuedTo EXCEPT ![plain] = id]
                       /\ streak' = StreakTouch(id, users')
                       /\ \E mailOk \in BOOLEAN :
                             res' = [rq EXCEPT !.status = mailCaught(200, mailOk),
                                               !.user = id, !.mailed = Mailed(mailOk)]

(***************************************************************************)
(* authenticateToken and GET /api/auth/me                                  *)
(***************************************************************************)
\* authenticateToken that does not look at the lock
authenticateToken_noLock(jwt, t) ==
    IF jwt = NoJwt THEN "MISSING_TOKEN"
    ELSE IF jwtVerify(jwt, t) = "JsonWebTokenError" THEN "INVALID_TOKEN"
    ELSE IF jwtVerify(jwt, t) = "TokenExpiredError" THEN "TOKEN_EXPIRED"
    ELSE IF jwt.userId \notin DOMAIN users THEN "INVALID_TOKEN"
    ELSE IF ~users[jwt.userId].isActive THEN "ACCOUNT_DEACTIVATED"
    ELSE ""

\* The error authenticateToken answers with, "" when it calls next().
authenticateToken(jwt, t) ==
    IF jwt = NoJwt THEN "MISSING_TOKEN"
    ELSE IF jwtVerify(jwt, t) = "JsonWebTokenError" THEN "INVALID_TOKEN"
    ELSE IF jwtVerify(jwt, t) = "TokenExpiredError" THEN "TOKEN_EXPIRED"
    ELSE IF jwt.userId \notin DOMAIN users THEN "INVALID_TOKEN"
    ELSE IF ~users[jwt.userId].isActive THEN "ACCOUNT_DEACTIVATED"
    ELSE IF isLocked(users[jwt.userId], t) THEN "ACCOUNT_LOCKED"
    ELSE ""

AuthStatus(err) ==
    IF err = "" THEN 200 ELSE IF err = "ACCOUNT_LOCKED" THEN 423 ELSE 401

\* "If token expires in less than 1 day, send a new one"
RefreshThresholdSec == 24 * 60 * 60

\* refreshTokenIfNeeded that issues a token on every request
refreshTokenIfNeeded_always(user, jwt, t) ==
    IF user = NoId \/ jwt = NoJwt \/ jwt = MalformedJwt THEN NoJwt
    ELSE generateToken(user, t)

\* refreshTokenIfNeeded: the value of the X-New-Token header, NoJwt when the
\* middleware sets none.  decoded.exp - Date.now() / 1000 is compared in
\* fractions of a second, here in milliseconds; a token jwt.decode answers
\* null for throws into the catch, which calls next().
refreshTokenIfNeeded(user, jwt, t) ==
    IF user = NoId THEN NoJwt
    ELSE IF jwt = NoJwt THEN NoJwt
    ELSE IF jwt = MalformedJwt THEN NoJwt
    ELSE IF jwt.exp * 1000 - t < RefreshThresholdSec * 1000
         THEN generateToken(user, t)
         ELSE NoJwt

\* The client of identity slot i presents the bearer token it holds.
GetMe(i) ==
    /\ UNCHANGED <<users, now, ticks, issued, issuedTo, bearer, streak, tasks, treq, inflight>>
    /\ LET jwt == bearer[i]
           err == authenticateToken(jwt, now)
           user == IF err = "" THEN jwt.userId ELSE NoId
       IN res' = [Reply("me", "", AuthStatus(err), err) EXCEPT
                     !.user = user, !.jwt = jwt,
                     !.newToken = refreshTokenIfNeeded(user, jwt, now)]

Next ==
    \/ \E d \in TickSteps : Tick(d)
    \/ \E e \in NewEmails, p \in NewPasswords : Register(e, p)
    \/ \E e \in Emails, p \in Passwords : Login(e, p)
    \/ \E e \in NewEmails, p \in NewPasswords : CreateAdmin(e, p)
    \/ \E e \in Emails, t \in TokenInputs : VerifyEmail(e, t)
    \/ \E e \in Emails : ResendVerification(e)
    \/ \E i \in Ids : GetMe(i)

Spec == Init /\ [][Next]_vars

(***************************************************************************)
(* Task routes: optionalAuth, validateSession, checkOwnership(Task)        *)
(***************************************************************************)
\* Session ids a client may send; "" is an absent (or empty, falsy) value.
SessionInputs == {"", "abc", "xyz", " abc"}

\* The String schema option trim: true, on the session ids of the model.
Trim(s) == IF s = " abc" THEN "abc" ELSE s

\* A header value reaches the handler without surrounding whitespace.
HeaderSessions == {s \in SessionInputs : Trim(s) = s}

TaskIds == 1..MaxTasks

\* An :id path parameter that is not an ObjectId; Task.findById rejects
\* with a CastError on it.
MalformedTaskId == 0

\* optionalAuth that does not look at isActive
optionalAuth_inactive(jwt, t) ==
    IF jwt = NoJwt THEN NoId
    ELSE IF jwtVerify(jwt, t) # "" THEN NoId
    ELSE IF jwt.userId \notin DOMAIN users THEN NoId
    ELSE IF ~isLocked(users[jwt.userId], t) THEN jwt.userId
    ELSE NoId

\* The identity optionalAuth puts in req.user, NoId for null.
optionalAuth(jwt, t) ==
    IF jwt = NoJwt THEN NoId
    ELSE IF jwtVerify(jwt, t) # "" THEN NoId
    ELSE IF jwt.userId \notin DOMAIN users THEN NoId
    ELSE IF users[jwt.userId].isActive /\ ~isLocked(users[jwt.userId], t)
         THEN jwt.userId
         ELSE NoId

\* req.sessionId: header, body field, query parameter, the first present.
sessionOf(hdr, body, query) ==
    IF hdr # "" THEN hdr ELSE IF body # "" THEN body ELSE query

validateSession(user, sessionId) ==
    IF sessionId = "" /\ user = NoId THEN "MISSING_SESSION" ELSE ""

\* checkOwnership that lets any presented session through
checkOwnership_anySession(user, sessionId, id) ==
    IF id = MalformedTaskId THEN "OWNERSHIP_CHECK_ERROR"
    ELSE IF id \notin DOMAIN tasks THEN "NOT_FOUND"
    ELSE LET resource == tasks[id]
             isOwner == user # NoId /\ (resource.userId = user \/ resource.createdBy = user)
             isSessionOwner == sessionId # ""
             isAdmin == user # NoId /\ users[user].role = "admin"
         IN IF ~isOwner /\ ~isSessionOwner /\ ~isAdmin THEN "ACCESS_DENIED" ELSE ""

\* The error checkOwnership answers with, "" when it calls next().
checkOwnership(user, sessionId, id) ==
    IF id = MalformedTaskId THEN "OWNERSHIP_CHECK_ERROR"
    ELSE IF id \notin DOMAIN tasks THEN "NOT_FOUND"
    ELSE LET resource == tasks[id]
             isOwner == user # NoId /\ (resource.userId = user \/ resource.createdBy = user)
             isSessionOwner == sessionId # "" /\ resource.sessionId = sessionId
             isAdmin == user # NoId /\ users[user].role = "admin"
         IN IF ~isOwner /\ ~isSessionOwner /\ ~isAdmin THEN "ACCESS_DENIED" ELSE ""

TaskStatus(err) ==
    IF err = "MISSING_SESSION" THEN 400
    ELSE IF err = "NOT_FOUND" THEN 404
    ELSE IF err = "ACCESS_DENIED" THEN 403
    ELSE IF err = "OWNERSHIP_CHECK_ERROR" THEN 500
    ELSE 200

\* The answer of GET /api/tasks/:id to a request, as a response record.
GetTaskReply(jwt, hdr, body, query, id) ==
    LET user == optionalAuth(jwt, now)
        sid == sessionOf(hdr, body, query)
        e1 == validateSession(user, sid)
        err == IF e1 # "" THEN e1 ELSE checkOwnership(user, sid, id)
    IN [op |-> "get", user |-> user, sessionId |-> sid, id |-> id,
        status |-> TaskStatus(err), error |-> err,
        task |-> IF err = "" THEN id ELSE 0]

\* GET /api/tasks/:id
GetTask(jwt, hdr, body, query, id) ==
    /\ treq' = GetTaskReply(jwt, hdr, body, query, id)
    /\ UNCHANGED <<users, now, ticks, issued, issuedTo, bearer, res, streak, tasks, inflight>>

\* The other fields of a task request body: the keys it carries, and the
\* values of userId, completed and status where it carries them.  completed
\* arrives as a JSON boolean or, completedIsString, as the string "true" or
\* "false"; isBoolean() accepts both and does not convert.
NoTaskBody ==
    [keys |-> {}, userId |-> NoId, completed |-> FALSE,
     completedIsString |-> FALSE, status |-> "pending"]

\* The document new Task(taskData) saves: the fields of the body with userId
\* and sessionId overridden, the defaults of the schema for what the body
\* leaves out; the schema trims sessionId, casts completed to a Boolean and
\* has no createdBy path.
NewTask(userId, sessionId, data) ==
    [userId |-> userId, sessionId |-> Trim(sessionId), createdBy |-> NoId,
     completed |-> IF "completed" \in data.keys THEN data.completed ELSE FALSE,
     status |-> IF "status" \in data.keys THEN data.status ELSE "pending",
     completedAt |-> Null,
     subtasks |-> <<>>]

\* POST /api/tasks
CreateTask(jwt, hdr, body, query, data) ==
    /\ UNCHANGED <<users, now, ticks, issued, issuedTo, bearer, res, streak, inflight>>
    /\ LET user == optionalAuth(jwt, now)
           sid == sessionOf(hdr, body, query)
           e1 == validateSession(user, sid)
           rq == [NoTaskRes EXCEPT !.op = "create", !.user = user, !.sessionId = sid]
       IN IF e1 # ""
          THEN /\ treq' = [rq EXCEPT !.status = 400, !.error = e1]
               /\ UNCHANGED tasks
          ELSE /\ Len(tasks) < MaxTasks
               /\ LET id == Len(tasks) + 1 IN
                  /\ tasks' = Append(tasks, NewTask(user, IF user # NoId THEN "" ELSE sid, data))
                  /\ treq' = [rq EXCEPT !.status = 201, !.id = id, !.task = id]

\* The middleware chain optionalAuth, validateSession, checkOwnership(Task)
\* of the routes on one task: the request record and the error, "" when the
\* handler runs.
Gate(op, jwt, hdr, body, query, id) ==
    LET user == optionalAuth(jwt, now)
        sid == sessionOf(hdr, body, query)
        e1 == validateSession(user, sid)
        err == IF e1 # "" THEN e1 ELSE checkOwnership(user, sid, id)
    IN [NoTaskRes EXCEPT !.op = op, !.user = user, !.sessionId = sid, !.id = id,
                         !.status = TaskStatus(err), !.error = err,
                         !.task = IF err = "" THEN id ELSE 0]

\* The loop of PUT /api/tasks/:id over the keys of req.body: every key the
\* body carries is assigned to the document, sessionId (body, "" when the
\* body has none) included.
assignBody(task, body, data) ==
    [task EXCEPT
       !.userId = IF "userId" \in data.keys THEN data.userId ELSE @,
       !.sessionId = IF body # "" THEN Trim(body) ELSE @,
       !.completed = IF "completed" \in data.keys THEN data.completed ELSE @,
       !.status = IF "status" \in data.keys THEN data.status ELSE @]

\* "Handle completion status change": req.body.completed !== task.completed
\* is evaluated after the loop has assigned completed, so it compares the
\* value of the body with its own cast: they differ only when the body
\* carried a string.
completionChanged(task, data) ==
    "completed" \in data.keys
       /\ (data.completedIsString \/ data.completed # task.completed)

syncCompletion(task, t) ==
    [task EXCEPT !.status = IF task.completed THEN "completed" ELSE "pending",
                 !.completedAt = IF task.completed THEN t ELSE Null]

\* PUT /api/tasks/:id
UpdateTask(jwt, hdr, body, query, id, data) ==
    /\ UNCHANGED <<users, now, ticks, issued, issuedTo, bearer, res, streak, inflight>>
    /\ LET rq == Gate("update", jwt, hdr, body, query, id) IN
       /\ treq' = rq
       /\ IF rq.error # ""
          THEN UNCHANGED tasks
          ELSE LET assigned == assignBody(tasks[id], body, data) IN
               tasks' = [tasks EXCEPT ![id] =
                           IF completionChanged(assigned, data)
                           THEN syncCompletion(assigned, now)
                           ELSE assigned]

\* taskSchema.methods.toggleComplete
toggleComplete(task, t) ==
    syncCompletion([task EXCEPT !.completed = ~task.completed], t)

\* PUT /api/tasks/:id/toggle
ToggleTask(jwt, hdr, body, query, id) ==
    /\ UNCHANGED <<users, now, ticks, issued, issuedTo, bearer, res, streak, inflight>>
    /\ LET rq == Gate("toggle", jwt, hdr, body, query, id) IN
       /\ treq' = rq
       /\ IF rq.error # ""
          THEN UNCHANGED tasks
          ELSE tasks' = [tasks EXCEPT ![id] = toggleComplete(@, now)]

\* POST /api/tasks/:id/subtasks; a subtask is its completed flag, its
\* position stands for its _id.
AddSubtask(jwt, hdr, body, query, id) ==
    /\ UNCHANGED <<users, now, ticks, issued, issuedTo, bearer, res, streak, inflight>>
    /\ LET rq == Gate("addSubtask", jwt, hdr, body, query, id) IN
       /\ treq' = rq
       /\ IF rq.error # ""
          THEN UNCHANGED tasks
          ELSE /\ Len(tasks[id].subtasks) < MaxSubtasks
               /\ tasks' = [tasks EXCEPT ![id].subtasks = Append(@, FALSE)]

\* taskSchema.methods.toggleSubtask on a subtask the task has
toggleSubtask(task, k, t) ==
    LET subtasks == [task.subtasks EXCEPT ![k] = ~@] IN
    IF \A n \in DOMAIN subtasks : subtasks[n]
    THEN [task EXCEPT !.subtasks = subtasks, !.completed = TRUE,
                      !.status = "completed", !.completedAt = t]
    ELSE [task EXCEPT !.subtasks = subtasks]

\* PUT /api/tasks/:id/subtasks/:subtaskId/toggle
ToggleSubtask(jwt, hdr, body, query, id, k) ==
    /\ UNCHANGED <<users, now, ticks, issued, issuedTo, bearer, res, streak, inflight>>
    /\ LET rq == Gate("toggleSubtask", jwt, hdr, body, query, id) IN
       IF rq.error # ""
       THEN treq' = rq /\ UNCHANGED tasks
       ELSE IF k \notin DOMAIN tasks[id].subtasks
       THEN /\ treq' = [rq EXCEPT !.status = 500, !.error = "TOGGLE_SUBTASK_ERROR",
                                  !.task = 0]
            /\ UNCHANGED tasks
       ELSE /\ treq' = rq
            /\ tasks' = [tasks EXCEPT ![id] = toggleSubtask(@, k, now)]

\* POST /api/tasks/bulk-update: Task.updateMany sets the fields of updates
\* on the tasks of taskIds that the caller's identity, or else its session
\* id, owns.
BulkUpdate(jwt, hdr, body, query, taskIds, updates) ==
    /\ UNCHANGED <<users, now, ticks, issued, issuedTo, bearer, res, streak, inflight>>
    /\ LET user == optionalAuth(jwt, now)
           sid == sessionOf(hdr, body, query)
           e1 == validateSession(user, sid)
           rq == [NoTaskRes EXCEPT !.op = "bulkUpdate", !.user = user, !.sessionId = sid]
           matches(id) == IF user # NoId THEN tasks[id].userId = user
                          ELSE tasks[id].sessionId = sid
       IN IF e1 # ""
          THEN /\ treq' = [rq EXCEPT !.status = 400, !.error = e1]
               /\ UNCHANGED tasks
          ELSE IF taskIds = {}
          THEN /\ treq' = [rq EXCEPT !.status = 400, !.error = "MISSING_TASK_IDS"]
               /\ UNCHANGED tasks
          ELSE /\ treq' = [rq EXCEPT !.status = 200]
               /\ tasks' = [id \in DOMAIN tasks |->
                              IF id \in taskIds /\ matches(id)
                              THEN assignBody(tasks[id], updates.sessionId, updates.data)
                              ELSE tasks[id]]

\* A store the auth routes have filled: an admin and two verified users,
\* each holding the bearer token of its last login; the second user may be
\* locked.
TaskEmails == <<"admin@x.io", "a@x.io", "b@x.io">>

InitTasks ==
    /\ \E lock \in {Null, LockDurationMs} :
          users = [i \in 1..3 |->
                     [NewUser(TaskEmails[i], "Passw0rd", IF i = 1 THEN "admin" ELSE "user")
                        EXCEPT !.isVerified = TRUE,
                               !.lastLogin = 0,
                               !.lockUntil = IF i = 3 THEN lock ELSE Null,
                               !.loginAttempts = IF i = 3 /\ lock # Null
                                                 THEN LockThreshold ELSE 0]]
    /\ now = 0
    /\ ticks = 0
    /\ issued = 0
    /\ issuedTo = [t \in Tokens |-> NoId]
    /\ bearer = [i \in 1..3 |-> generateToken(i, 0)]
    /\ res = NoRes
    /\ streak = [i \in 1..3 |-> -1]
    /\ tasks = <<>>
    /\ treq = NoTaskRes
    /\ inflight = <<>>

BearerInputs == {NoJwt} \cup {bearer[i] : i \in DOMAIN bearer}

NextTasks ==
    \/ \E j \in BearerInputs, h \in HeaderSessions, b \in SessionInputs,
          q \in SessionInputs : CreateTask(j, h, b, q, NoTaskBody)
    \/ \E j \in BearerInputs, h \in HeaderSessions, b \in SessionInputs,
          q \in SessionInputs, id \in TaskIds \cup {MalformedTaskId} :
             GetTask(j, h, b, q, id)

SpecTasks == InitTasks /\ [][NextTasks]_vars

\* Who owns a task: requests of one user and of the anonymous session "abc",
\* with bodies that name another user or another session as the owner.
OwnerBodies ==
    {NoTaskBody, [NoTaskBody EXCEPT !.keys = {"userId"}, !.userId = 3]}

OwnerBearers == {NoJwt, bearer[2]}

InitTaskEdit == InitTasks /\ users[3].lockUntil = Null

NextTaskOwner ==
    \/ \E j \in OwnerBearers, h \in {"", "abc"}, b \in {"", "xyz"}, d \in OwnerBodies :
          CreateTask(j, h, b, "", d)
    \/ \E j \in OwnerBearers, h \in {"", "abc"}, b \in {"", "xyz"}, d \in OwnerBodies,
          id \in TaskIds : UpdateTask(j, h, b, "", id, d)
    \/ \E j \in OwnerBearers, h \in {"", "abc"}, id \in TaskIds :
          ToggleTask(j, h, "", "", id)
    \/ \E j \in OwnerBearers, h \in {"", "abc"}, ids \in {{}, {1}, TaskIds},
          b \in {"", "xyz"}, d \in OwnerBodies :
             BulkUpdate(j, h, "", "", ids, [sessionId |-> b, data |-> d])

SpecTaskOwner == InitTaskEdit /\ [][NextTaskOwner]_vars

\* Completion of a task: requests of the anonymous session "abc" on its own
\* tasks, with bodies that carry completed, as a boolean or as a string, or
\* status.
CompletionBodies ==
    {NoTaskBody, [NoTaskBody EXCEPT !.keys = {"status"}, !.status = "completed"]}
       \cup {[NoTaskBody EXCEPT !.keys = {"completed"}, !.completed = c,
                                !.completedIsString = str] :
                c \in BOOLEAN, str \in BOOLEAN}

NextTaskDone ==
    \/ \E d \in CompletionBodies : CreateTask(NoJwt, "abc", "", "", d)
    \/ \E d \in CompletionBodies, id \in TaskIds :
          UpdateTask(NoJwt, "abc", "", "", id, d)
    \/ \E id \in TaskIds : ToggleTask(NoJwt, "abc", "", "", id)
    \/ \E id \in TaskIds : AddSubtask(NoJwt, "abc", "", "", id)
    \/ \E id \in TaskIds, k \in 1..MaxSubtasks :
          ToggleSubtask(NoJwt, "abc", "", "", id, k)

SpecTaskDone == InitTaskEdit /\ [][NextTaskDone]_vars


(***************************************************************************)
(* Lockout policy                                                          *)
(***************************************************************************)

\* C1: starting from a verified, active, Unlocked identity with
\* loginAttempts = 0, the fifth consecutive wrong-password login leaves the
\* identity Locked (lockUntil in the future), and a login made after these
\* five while lockUntil has not elapsed is answered ACCOUNT_LOCKED for every
\* password, the correct one included, and changes nothing.
C1_FiveFailuresLock ==
    [][\A i \in DOMAIN users :
         /\ (streak[i] = 4 /\ streak'[i] = 5)
               => (users'[i].lockUntil # Null /\ users'[i].lockUntil > now')
         /\ (streak[i] = 5 /\ users[i].lockUntil > now)
               => \A p \in Passwords :
                     Login(users[i].email, p)
                        => (res'.status = 423 /\ res'.error = "ACCOUNT_LOCKED"
                            /\ users' = users)]_vars

\* A sixth login with the correct password, answered ACCOUNT_LOCKED.
C1_Witness ==
    \E i \in DOMAIN users :
        /\ streak[i] = 6
        /\ res.op = "login" /\ res.error = "ACCOUNT_LOCKED"
        /\ res.email = users[i].email
        /\ users[i].password = BcryptHash(res.password)
        /\ users[i].lockUntil > now

\* C2: a login handled while lockUntil > now is answered ACCOUNT_LOCKED
\* whatever the password, and leaves loginAttempts, lockUntil and lastLogin
\* of the identity as they were.
C2_LockedLoginChangesNothing ==
    [][\A e \in Emails, p \in Passwords :
         LET id == findOneByEmail(e) IN
         (id # NoId /\ users[id].lockUntil # Null /\ users[id].lockUntil > now
            /\ Login(e, p))
           => /\ res'.status = 423 /\ res'.error = "ACCOUNT_LOCKED"
              /\ users'[id].loginAttempts = users[id].loginAttempts
              /\ users'[id].lockUntil = users[id].lockUntil
              /\ users'[id].lastLogin = users[id].lastLogin]_vars

\* A wrong-password login answered ACCOUNT_LOCKED on a locked identity.
C2_Witness ==
    \E i \in DOMAIN users :
        /\ res.op = "login" /\ res.error = "ACCOUNT_LOCKED"
        /\ res.email = users[i].email
        /\ users[i].password # BcryptHash(res.password)
        /\ users[i].lockUntil > now
        /\ users[i].loginAttempts = 5

(***************************************************************************)
(* Verification flow                                                       *)
(***************************************************************************)

\* C3: a login on an Unverified identity is answered EMAIL_NOT_VERIFIED for
\* every password and leaves loginAttempts and lockUntil unchanged; a
\* successful register leaves the identity Unverified with the registered
\* password, so the login that follows it is such a login.
C3_UnverifiedLoginRejected ==
    [][\A e \in Emails, p \in Passwords :
         LET id == findOneByEmail(e) IN
         /\ (id # NoId /\ ~users[id].isVerified /\ Login(e, p))
               => /\ res'.status = 403 /\ res'.error = "EMAIL_NOT_VERIFIED"
                  /\ users'[id].loginAttempts = users[id].loginAttempts
                  /\ users'[id].lockUntil = users[id].lockUntil
         /\ (id = NoId /\ Register(e, p) /\ res'.status = 201)
               => LET n == res'.user IN
                  /\ n \in DOMAIN users' /\ users'[n].email = e
                  /\ ~users'[n].isVerified
                  /\ users'[n].password = BcryptHash(p)]_vars

\* A login with the registered password answered EMAIL_NOT_VERIFIED.
C3_Witness ==
    \E i \in DOMAIN users :
        /\ res.op = "login" /\ res.error = "EMAIL_NOT_VERIFIED"
        /\ res.email = users[i].email
        /\ users[i].password = BcryptHash(res.password)
        /\ ~users[i].isVerified

\* C4: no request is authenticated as an identity whose isVerified is false:
\* a request that passed authenticateToken on a protected endpoint was made
\* for a verified identity.
C4_UnverifiedNeverAuthenticated ==
    (res.op = "me" /\ res.status = 200) => users[res.user].isVerified

(***************************************************************************)
(* Ownership resolver                                                      *)
(***************************************************************************)

\* C5: a task created by an anonymous request with session id S is stored
\* with sessionId = S and userId = null, is retrievable by a request
\* presenting session S, is denied (ACCESS_DENIED) to a request presenting
\* another session and to an authenticated non-admin identity that is not
\* its owner and presents no session, and is retrievable by every admin.
C5_AnonymousTaskOwnership ==
    (treq.op = "create" /\ treq.status = 201 /\ treq.user = NoId)
       => LET S == treq.sessionId
              id == treq.task
              Answer(j, s) == GetTaskReply(j, "", "", s, id)
          IN /\ tasks[id].sessionId = S /\ tasks[id].userId = NoId
             /\ Answer(NoJwt, S).status = 200 /\ Answer(NoJwt, S).task = id
             /\ \A s \in SessionInputs \ {"", S} :
                   Answer(NoJwt, s).error = "ACCESS_DENIED"
             /\ \A i \in DOMAIN users :
                   optionalAuth(bearer[i], now) = i
                      => IF users[i].role = "admin"
                         THEN Answer(bearer[i], "").status = 200
                         ELSE Answer(bearer[i], "").error = "ACCESS_DENIED"

\* C6: for an existing task and every combination of resolved identity and
\* session id, checkOwnership lets the request through exactly when the
\* caller is an admin, or its identity is the task's userId or createdBy, or
\* its session id is present and equals the task's sessionId; otherwise it
\* answers ACCESS_DENIED and the handler returns no task.
C6_OwnershipDecision ==
    /\ \A id \in DOMAIN tasks, u \in {NoId} \cup DOMAIN users, s \in SessionInputs :
          LET granted ==
                 \/ u # NoId /\ users[u].role = "admin"
                 \/ u # NoId /\ (tasks[id].userId = u \/ tasks[id].createdBy = u)
                 \/ s # "" /\ s = tasks[id].sessionId
          IN /\ granted => checkOwnership(u, s, id) = ""
             /\ ~granted => checkOwnership(u, s, id) = "ACCESS_DENIED"
    /\ (treq.op = "get" /\ treq.id \in DOMAIN tasks /\ treq.error # "MISSING_SESSION")
          => LET u == treq.user
                 s == treq.sessionId
                 granted ==
                    \/ u # NoId /\ users[u].role = "admin"
                    \/ u # NoId /\ (tasks[treq.id].userId = u \/ tasks[treq.id].createdBy = u)
                    \/ s # "" /\ s = tasks[treq.id].sessionId
             IN /\ granted => (treq.status = 200 /\ treq.task = treq.id)
                /\ ~granted => (treq.status = 403 /\ treq.error = "ACCESS_DENIED"
                                /\ treq.task = 0)

\* An authenticated non-admin refused a task of an anonymous session whose
\* session id it does not present.
C6_Witness ==
    /\ treq.op = "get" /\ treq.error = "ACCESS_DENIED"
    /\ treq.user # NoId /\ users[treq.user].role = "user"
    /\ treq.sessionId = "xyz"
    /\ tasks[treq.id].sessionId = "abc" /\ tasks[treq.id].userId = NoId

\* C7: verify-email with the correct, unexpired token on an Unverified
\* identity reports success and performs the transition; verify-email on a
\* Verified identity reports success and changes no field of the identity.
C7_VerifyIdempotent ==
    [][\A e \in Emails, t \in TokenInputs :
         LET id == findOneByEmail(e) IN
         /\ (id # NoId /\ ~users[id].isVerified /\ users[id].verifyToken = Sha256(t)
               /\ users[id].verifyExpires >= now /\ VerifyEmail(e, t))
               => /\ res'.redirect = "/verify-success.html"
                  /\ users'[id].isVerified
                  /\ users'[id].verifyToken = Null /\ users'[id].verifyExpires = Null
         /\ (id # NoId /\ users[id].isVerified /\ VerifyEmail(e, t))
               => /\ res'.redirect = "/verify-success.html"
                  /\ users' = users]_vars

\* The second call with the only token ever issued, answered with success.
C7_Witness ==
    \E i \in DOMAIN users :
        /\ res.op = "verify-email" /\ res.redirect = "/verify-success.html"
        /\ res.user = NoId
        /\ res.email = users[i].email
        /\ users[i].isVerified
        /\ issued = 1 /\ issuedTo[1] = i /\ res.token = 1

\* C8: the stored expiry is the issuance time plus 24 hours, and a
\* verify-email handled later than verifyExpires fails (verify-failed) even
\* with the token that hashes to the stored hash, leaving the identity as
\* it was.
C8_ExpiredTokenRejected ==
    [][\A e \in Emails, t \in TokenInputs :
         LET id == findOneByEmail(e) IN
         /\ (id # NoId /\ users[id].verifyToken # Null)
               => users[id].verifyExpires
                     = users[id].lastVerificationSent + 24 * 60 * 60 * 1000
         /\ (id # NoId /\ ~users[id].isVerified /\ users[id].verifyToken = Sha256(t)
               /\ now > users[id].verifyExpires /\ VerifyEmail(e, t))
               => /\ res'.redirect = "/verify-failed.html"
                  /\ users' = users]_vars

\* The stored token presented after its expiry and refused.
C8_Witness ==
    \E i \in DOMAIN users :
        /\ res.op = "verify-email" /\ res.redirect = "/verify-failed.html"
        /\ res.email = users[i].email
        /\ ~users[i].isVerified
        /\ users[i].verifyToken = Sha256(res.token)
        /\ now > users[i].verifyExpires

\* C9: a resend-verification for an Unverified identity handled less than
\* 60 s after the last issuance is answered TOO_MANY_REQUESTS with
\* 1 <= retryAfter <= 60, and issues no token: the identity and the record
\* of issued tokens are unchanged.
C9_ResendCooldown ==
    [][\A e \in Emails :
         LET id == findOneByEmail(e) IN
         (id # NoId /\ ~users[id].isVerified /\ users[id].lastVerificationSent # Null
            /\ now - users[id].lastVerificationSent < 60 * 1000
            /\ ResendVerification(e))
           => /\ res'.status = 429 /\ res'.error = "TOO_MANY_REQUESTS"
              /\ res'.retryAfter >= 1 /\ res'.retryAfter <= 60
              /\ users' = users /\ issued' = issued /\ issuedTo' = issuedTo]_vars

\* A resend 59.999 s after the issuance, refused with retryAfter = 1.
C9_Witness ==
    \E i \in DOMAIN users :
        /\ res.op = "resend-verification" /\ res.status = 429
        /\ res.email = users[i].email
        /\ res.retryAfter = 1
        /\ now - users[i].lastVerificationSent = 59999

\* C10: of the tokens issued to an identity only the latest one verifies it:
\* verify-email with any other token does not verify the identity and does
\* not report success, and verify-email with the latest token, before its
\* expiry, verifies it.
C10_OnlyLatestTokenValid ==
    [][\A e \in Emails, t \in TokenInputs :
         LET id == findOneByEmail(e)
             latest == CHOOSE m \in Tokens \cup {0} :
                          /\ (m # 0 => issuedTo[m] = id)
                          /\ \A k \in Tokens : issuedTo[k] = id => k <= m
         IN
         /\ (id # NoId /\ ~users[id].isVerified /\ t # latest /\ VerifyEmail(e, t))
               => /\ users' = users
                  /\ res'.redirect # "/verify-success.html"
         /\ (id # NoId /\ ~users[id].isVerified /\ t = latest
               /\ users[id].verifyExpires >= now /\ VerifyEmail(e, t))
               => /\ users'[id].isVerified
                  /\ res'.redirect = "/verify-success.html"]_vars

\* The token of the registration, presented after a resend and before its
\* own expiry, refused.
C10_Witness ==
    \E i \in DOMAIN users :
        /\ res.op = "verify-email" /\ res.redirect = "/verify-failed.html"
        /\ res.email = users[i].email
        /\ ~users[i].isVerified
        /\ res.token \in Tokens /\ issuedTo[res.token] = i
        /\ \E k \in Tokens : k > res.token /\ issuedTo[k] = i
                               /\ users[i].verifyToken = Sha256(k)
        /\ now <= users[i].verifyExpires - 2 * 60 * 60 * 1000

(***************************************************************************)
(* Lockout policy: reset and restart                                       *)
(***************************************************************************)

\* C14: a login with the correct password on a verified, active identity
\* that is not locked (lockUntil null, or not in the future) succeeds, issues
\* a bearer token for the identity, and leaves loginAttempts = 0, lockUntil
\* cleared and lastLogin at the time of the login, whatever count or expired
\* lock the identity carried.
C14_SuccessfulLoginResets ==
    [][\A e \in Emails, p \in Passwords :
         LET id == findOneByEmail(e) IN
         (id # NoId /\ users[id].isVerified /\ users[id].isActive
            /\ ~(users[id].lockUntil # Null /\ users[id].lockUntil > now)
            /\ users[id].password = BcryptHash(p)
            /\ Login(e, p))
           => /\ res'.status = 200 /\ res'.user = id
              /\ bearer'[id].userId = id /\ bearer'[id].exp > now \div 1000
              /\ users'[id].loginAttempts = 0
              /\ users'[id].lockUntil = Null
              /\ users'[id].lastLogin = now]_vars

\* A successful login, two hours or more after the start, on an identity
\* that is left with a clean lockout state.
C14_Witness ==
    /\ res.op = "login" /\ res.status = 200
    /\ now >= LockDurationMs
    /\ res.user \in DOMAIN users
    /\ users[res.user].lastLogin = now
    /\ users[res.user].loginAttempts = 0
    /\ users[res.user].lockUntil = Null
    /\ bearer[res.user].exp = (now \div 1000) + 7 * 24 * 60 * 60

TokenSlots == 1..5

TokenUser(i) ==
    [NewUser(IF i = 1 THEN "a@x.io" ELSE IF i = 2 THEN "b@x.io"
             ELSE IF i = 3 THEN "c@x.io" ELSE "d@x.io",
             "Passw0rd", "user") EXCEPT
        !.isVerified = TRUE,
        !.isActive = i \in {1, 3},
        !.loginAttempts = IF i \in {3, 4} THEN LockThreshold ELSE 0,
        !.lockUntil = IF i \in {3, 4} THEN LockDurationMs ELSE Null]

InitToken ==
    /\ users = [i \in 1..4 |-> TokenUser(i)]
    /\ now = 0
    /\ ticks = 0
    /\ issued = 0
    /\ issuedTo = [i \in TokenSlots |-> Null]
    /\ bearer = [i \in TokenSlots |-> generateToken(i, 0)]
    /\ res = NoRes
    /\ streak = [i \in TokenSlots |-> -1]
    /\ tasks = <<>>
    /\ treq = NoTaskRes
    /\ inflight = <<>>

\* Steps that reach the end of the lock, the last day of a token and the
\* second it expires in.
TokenTickSteps ==
    {1, LockDurationMs, (JwtExpiresInSec - RefreshThresholdSec) * 1000,
     JwtExpiresInSec * 1000 - 1}

\* What a client can put after "Bearer ": nothing, something that is not a
\* token, a token it holds, or a token it holds with the identity, the
\* expiry or the signature altered.
PresentedTokens ==
    {NoJwt, MalformedJwt}
      \cup {bearer[i] : i \in TokenSlots}
      \cup {[bearer[i] EXCEPT !.userId = (i % 5) + 1] : i \in TokenSlots}
      \cup {[bearer[i] EXCEPT !.exp = @ + JwtExpiresInSec] : i \in TokenSlots}
      \cup {[bearer[i] EXCEPT !.sig = @ + 1] : i \in TokenSlots}

\* The response of a route behind authenticateToken: req.user is set only
\* when the middleware calls next().
AuthReply(op, jwt) ==
    LET err == authenticateToken(jwt, now)
    IN [Reply(op, "", AuthStatus(err), err) EXCEPT
           !.user = IF err = "" THEN jwt.userId ELSE NoId,
           !.jwt = jwt]

\* The clock stops after the tokens issued in the first week have expired.
TokenHorizon == 2 * JwtExpiresInSec * 1000

TickToken(d) ==
    /\ ticks < MaxTicks
    /\ now + d <= TokenHorizon
    /\ now' = now + d
    /\ ticks' = ticks + 1
    /\ UNCHANGED <<users, issued, issuedTo, bearer, res, streak, tasks, treq, inflight>>

\* POST /api/auth/verify-token
VerifyToken(jwt) ==
    /\ res' = AuthReply("verify-token", jwt)
    /\ UNCHANGED <<users, now, ticks, issued, issuedTo, bearer, streak, tasks, treq, inflight>>

\* POST /api/auth/refresh-token: the client of slot i presents the token it
\* holds and keeps the new one from the response.
RefreshToken(i) ==
    /\ res' = AuthReply("refresh-token", bearer[i])
    /\ bearer' = IF authenticateToken(bearer[i], now) = ""
                 THEN [bearer EXCEPT ![i] = generateToken(bearer[i].userId, now)]
                 ELSE bearer
    /\ UNCHANGED <<users, now, ticks, issued, issuedTo, streak, tasks, treq, inflight>>

\* GET /api/projects: optionalAuth, then the handler answers the list.
GetProjects(jwt) ==
    /\ res' = [Reply("projects", "", 200, "") EXCEPT
                  !.user = optionalAuth(jwt, now), !.jwt = jwt]
    /\ UNCHANGED <<users, now, ticks, issued, issuedTo, bearer, streak, tasks, treq, inflight>>

NextToken ==
    \/ \E d \in TokenTickSteps : TickToken(d)
    \/ \E jwt \in PresentedTokens : VerifyToken(jwt)
    \/ \E i \in TokenSlots : RefreshToken(i)
    \/ \E jwt \in PresentedTokens : GetProjects(jwt)
    \/ \E i \in TokenSlots : GetMe(i)

SpecToken == InitToken /\ [][NextToken]_vars

\* A token as generateToken signs it: the signature belongs to the payload.
WellSigned(jwt) == jwt.sig = HmacSha256(jwt.userId, jwt.exp)

\* C11: a token produced by generateToken(id), presented before its expiry,
\* never resolves to another identity and resolves to id whenever the
\* request passes; a token whose payload or signature differs from what was
\* signed is answered 401 INVALID_TOKEN and resolves to no identity.
C11_TokenRoundTrip ==
    /\ \A i \in TokenSlots :
          /\ jwtVerify(generateToken(i, now), now) = ""
          /\ (now \div 1000) < bearer[i].exp => jwtVerify(bearer[i], now) = ""
    /\ res.op \in {"verify-token", "refresh-token"} =>
          /\ res.status = 200 => res.user = res.jwt.userId
          /\ (res.jwt # NoJwt /\ ~WellSigned(res.jwt)) =>
                (res.status = 401 /\ res.error = "INVALID_TOKEN" /\ res.user = NoId)
    /\ res.op = "projects" =>
          /\ res.user # NoId => res.user = res.jwt.userId
          /\ ~WellSigned(res.jwt) => res.user = NoId

C11_Witness ==
    /\ res.op = "verify-token" /\ res.error = "INVALID_TOKEN"
    /\ res.jwt = [bearer[1] EXCEPT !.userId = 2]
    /\ now > LockDurationMs

\* C12: a route behind authenticateToken answers 200 exactly when the token
\* is well signed and unexpired and its identity is in the store, active and
\* not locked at that moment; a good token of a deactivated identity gets
\* 401 ACCOUNT_DEACTIVATED, of an active locked identity 423 ACCOUNT_LOCKED,
\* a well-signed expired token 401 TOKEN_EXPIRED; a rejected request has no
\* req.user and the refresh handler issues nothing.
C12_AuthenticateTokenGate ==
    [][\A jwt \in PresentedTokens :
         (VerifyToken(jwt) \/ (\E i \in TokenSlots : jwt = bearer[i] /\ RefreshToken(i))) =>
            LET good == jwt # NoJwt /\ WellSigned(jwt) /\ (now \div 1000) < jwt.exp
                known == jwt.userId \in DOMAIN users
                locked == users[jwt.userId].lockUntil # Null
                            /\ users[jwt.userId].lockUntil > now
            IN /\ res'.status = 200 <=>
                    (good /\ known /\ users[jwt.userId].isActive /\ ~locked)
               /\ (good /\ known /\ ~users[jwt.userId].isActive) =>
                    (res'.status = 401 /\ res'.error = "ACCOUNT_DEACTIVATED")
               /\ (good /\ known /\ users[jwt.userId].isActive /\ locked) =>
                    (res'.status = 423 /\ res'.error = "ACCOUNT_LOCKED")
               /\ (jwt # NoJwt /\ WellSigned(jwt) /\ (now \div 1000) >= jwt.exp) =>
                    (res'.status = 401 /\ res'.error = "TOKEN_EXPIRED")
               /\ res'.status # 200 => (res'.user = NoId /\ bearer' = bearer)]_vars

C12_Witness ==
    /\ res.op = "verify-token" /\ res.status = 423
    /\ res.error = "ACCOUNT_LOCKED" /\ res.jwt = bearer[3]

\* C13: a request through optionalAuth always reaches the handler, whatever
\* it presents, and req.user is the token's identity exactly when the token
\* is well signed and unexpired and that identity is in the store, active
\* and not locked; otherwise req.user is null.
C13_OptionalAuthNeverFails ==
    [][\A jwt \in PresentedTokens :
         GetProjects(jwt) =>
            LET ok == /\ jwt # NoJwt /\ WellSigned(jwt)
                      /\ (now \div 1000) < jwt.exp
                      /\ jwt.userId \in DOMAIN users
                      /\ users[jwt.userId].isActive
                      /\ ~(users[jwt.userId].lockUntil # Null
                             /\ users[jwt.userId].lockUntil > now)
            IN /\ res'.op = "projects" /\ res'.status = 200 /\ res'.error = ""
               /\ res'.user = IF ok THEN jwt.userId ELSE NoId]_vars

C13_Witness ==
    /\ res.op = "projects" /\ res.status = 200 /\ res.user = NoId
    /\ res.jwt = bearer[2] /\ now > 0


(***************************************************************************)
(* Concurrent requests.  A handler runs up to its first database read,     *)
(* other requests are served, and it continues with the document it read.  *)
(* inflight holds the requests whose read has been answered and whose      *)
(* continuation has not run yet.                                           *)
(***************************************************************************)
RawEmails == {"a@x.io", "A@x.io"}

\* normalizeEmail() of express-validator and the lowercase setter of the
\* schema, on the addresses of the model
normalizeEmail(raw) == IF raw = "A@x.io" THEN "a@x.io" ELSE raw

NoDoc == NewUser("", "", "none")

\* What User.findOne({ email }) answers a handler with: the id and a copy of
\* the stored document
Request(op, email, password, token) ==
    LET id == findOneByEmail(email)
    IN [op |-> op, email |-> email, password |-> password, token |-> token,
        id |-> id, doc |-> IF id = NoId THEN NoDoc ELSE users[id]]

\* inflight without its k-th request, which has been answered
Done(k) == [j \in 1..(Len(inflight) - 1) |-> IF j < k THEN inflight[j] ELSE inflight[j + 1]]

\* the email index left out
uniqueEmailViolation_off(email) == FALSE

\* The unique index on email rejects the insert (E11000).
uniqueEmailViolation(email) == \E i \in DOMAIN users : users[i].email = email

\* document.save() of a loaded document writes the paths the handler
\* modified, here those generateVerificationToken assigned.
saveVerificationPaths(stored, doc) ==
    [stored EXCEPT !.verifyToken = doc.verifyToken,
                   !.verifyExpires = doc.verifyExpires,
                   !.lastVerificationSent = doc.lastVerificationSent]

\* POST /api/auth/register, up to the answer of findOne
RegisterFind(raw, password) ==
    /\ Len(inflight) < MaxInflight
    /\ inflight' = Append(inflight, Request("register", normalizeEmail(raw), password, 0))
    /\ UNCHANGED <<users, now, ticks, issued, issuedTo, bearer, res, streak, tasks, treq>>

\* POST /api/auth/register, from the answer of findOne on
RegisterSave(k) ==
    /\ k \in DOMAIN inflight /\ inflight[k].op = "register"
    /\ inflight' = Done(k)
    /\ UNCHANGED <<now, ticks, tasks, treq>>
    /\ LET r == inflight[k]
           rq == [Reply("register", r.email, 0, "") EXCEPT !.password = r.password]
       IN IF r.id # NoId
          THEN /\ res' = [rq EXCEPT !.status = 400, !.error = "USER_EXISTS"]
               /\ UNCHANGED <<users, issued, issuedTo, bearer, streak>>
          ELSE IF uniqueEmailViolation(r.email)
          THEN /\ res' = [rq EXCEPT !.status = 500, !.error = "REGISTRATION_ERROR"]
               /\ UNCHANGED <<users, issued, issuedTo, bearer, streak>>
          ELSE /\ NextId \in DOMAIN bearer
               /\ issued < MaxTokens
               /\ LET id == NextId
                      plain == issued + 1
                      u == generateVerificationToken(
                               NewUser(r.email, r.password, "user"), plain, now)
                  IN /\ users' = (id :> u) @@ users
                     /\ issued' = plain
                     /\ issuedTo' = [issuedTo EXCEPT ![plain] = id]
                     /\ bearer' = [bearer EXCEPT ![id] = generateToken(id, now)]
                     /\ streak' = StreakTouch(id, users')
                     /\ \E mailOk \in BOOLEAN :
                           res' = [rq EXCEPT !.status = mailCaught(201, mailOk),
                                             !.user = id, !.mailed = Mailed(mailOk)]

\* GET /api/auth/verify-email, up to the answer of findOne
VerifyFind(raw, token) ==
    /\ Len(inflight) < MaxInflight
    /\ inflight' = Append(inflight, Request("verify-email", normalizeEmail(raw), "", token))
    /\ UNCHANGED <<users, now, ticks, issued, issuedTo, bearer, res, streak, tasks, treq>>

\* GET /api/auth/verify-email, from the answer of findOne on
VerifySave(k) ==
    /\ k \in DOMAIN inflight /\ inflight[k].op = "verify-email"
    /\ inflight' = Done(k)
    /\ UNCHANGED <<now, ticks, issued, issuedTo, bearer, tasks, treq>>
    /\ LET r == inflight[k]
           rq == [Reply("verify-email", r.email, 0, "") EXCEPT !.token = r.token]
       IN IF r.id = NoId
          THEN /\ res' = [rq EXCEPT !.status = 404, !.error = "USER_NOT_FOUND"]
               /\ UNCHANGED <<users, streak>>
          ELSE IF alreadyVerified(r.doc)
          THEN /\ res' = [rq EXCEPT !.status = 302, !.redirect = "/verify-success.html"]
               /\ UNCHANGED <<users, streak>>
          ELSE IF noStoredToken(r.doc)
          THEN /\ res' = [rq EXCEPT !.status = 400, !.error = "NO_TOKEN"]
               /\ UNCHANGED <<users, streak>>
          ELSE IF tokenRejected(r.doc, r.token, now)
          THEN /\ res' = [rq EXCEPT !.status = 302, !.redirect = "/verify-failed.html"]
               /\ UNCHANGED <<users, streak>>
          ELSE /\ users' = [users EXCEPT ![r.id] =
                              [@ EXCEPT !.isVerified = TRUE, !.verifyToken = Null,
                                        !.verifyExpires = Null]]
               /\ streak' = StreakTouch(r.id, users')
               /\ res' = [rq EXCEPT !.status = 302, !.redirect = "/verify-success.html",
                                    !.user = r.id]

\* POST /api/auth/resend-verification, up to the answer of findOne
ResendFind(raw) ==
    /\ Len(inflight) < MaxInflight
    /\ inflight' = Append(inflight, Request("resend-verification", normalizeEmail(raw), "", 0))
    /\ UNCHANGED <<users, now, ticks, issued, issuedTo, bearer, res, streak, tasks, treq>>

\* POST /api/auth/resend-verification, from the answer of findOne on
ResendSave(k) ==
    /\ k \in DOMAIN inflight /\ inflight[k].op = "resend-verification"
    /\ inflight' = Done(k)
    /\ UNCHANGED <<now, ticks, bearer, tasks, treq>>
    /\ LET r == inflight[k]
           rq == Reply("resend-verification", r.email, 0, "")
       IN IF r.id = NoId
          THEN /\ res' = [rq EXCEPT !.status = 404, !.error = "USER_NOT_FOUND"]
               /\ UNCHANGED <<users, issued, issuedTo, streak>>
          ELSE IF r.doc.isVerified
          THEN /\ res' = [rq EXCEPT !.status = 400, !.error = "ALREADY_VERIFIED"]
               /\ UNCHANGED <<users, issued, issuedTo, streak>>
          ELSE IF inCooldown(r.doc, now)
          THEN /\ res' = [rq EXCEPT !.status = 429, !.error = "TOO_MANY_REQUESTS",
                                    !.retryAfter = CooldownSeconds - ResendElapsed(r.doc, now)]
               /\ UNCHANGED <<users, issued, issuedTo, streak>>
          ELSE /\ issued < MaxTokens
               /\ LET plain == issued + 1 IN
                  /\ users' = [users EXCEPT ![r.id] =
                                  saveVerificationPaths(@,
                                      generateVerificationToken(r.doc, plain, now))]
                  /\ issued' = plain
                  /\ issuedTo' = [issuedTo EXCEPT ![plain] = r.id]
                  /\ streak' = StreakTouch(r.id, users')
                  /\ \E mailOk \in BOOLEAN :
                        res' = [rq EXCEPT !.status = mailCaught(200, mailOk),
                                          !.user = r.id, !.mailed = Mailed(mailOk)]

RaceIds == 1..MaxUsers

InitRace ==
    /\ users = <<>>
    /\ now = 0
    /\ ticks = 0
    /\ issued = 0
    /\ issuedTo = [t \in Tokens |-> NoId]
    /\ bearer = [i \in RaceIds |-> NoJwt]
    /\ res = NoRes
    /\ streak = [i \in RaceIds |-> -1]
    /\ tasks = <<>>
    /\ treq = NoTaskRes
    /\ inflight = <<>>

\* The step of the clock between the requests: beyond the resend cooldown.
RaceTickSteps == {LockDurationMs}

NextRace ==
    \/ \E d \in RaceTickSteps : Tick(d)
    \/ \E raw \in RawEmails, p \in NewPasswords : RegisterFind(raw, p)
    \/ \E raw \in RawEmails, t \in Tokens : VerifyFind(raw, t)
    \/ \E raw \in RawEmails : ResendFind(raw)
    \/ \E k \in 1..MaxInflight : RegisterSave(k)
    \/ \E k \in 1..MaxInflight : VerifySave(k)
    \/ \E k \in 1..MaxInflight : ResendSave(k)
    \/ \E e \in NewEmails, p \in NewPasswords : Login(e, p)
    \/ \E e \in NewEmails, p \in NewPasswords : CreateAdmin(e, p)

SpecRace == InitRace /\ [][NextRace]_vars

\* C16: in every state of the store an identity with isVerified = true has
\* verifyToken = null and verifyExpires = null, whatever the interleaving of
\* register, verify-email, resend-verification, create-admin and login.
C16_VerifiedHasNoToken ==
    \A i \in DOMAIN users :
       users[i].isVerified =>
          (users[i].verifyToken = Null /\ users[i].verifyExpires = Null)


\* Equality of two addresses of the model up to the case of the letters
EqualIgnoringCase(x, y) ==
    \/ x = y
    \/ {x, y} = {"a@x.io", "A@x.io"}

\* C19: a register request whose email, compared without regard to case, is
\* registered when the handler looks it up is answered 400 USER_EXISTS and
\* leaves the store as it is; and no two identities of the store ever have
\* the same email, also when register requests for one email overlap.
C19_DuplicateEmailRejected ==
    [][/\ \A raw \in RawEmails, p \in NewPasswords :
            ((\E i \in DOMAIN users : EqualIgnoringCase(users[i].email, raw))
               /\ RegisterFind(raw, p))
              => inflight'[Len(inflight')].id # NoId
       /\ \A k \in 1..MaxInflight :
            (k \in DOMAIN inflight /\ inflight[k].id # NoId /\ RegisterSave(k))
              => /\ res'.status = 400 /\ res'.error = "USER_EXISTS"
                 /\ users' = users
       /\ \A i, j \in DOMAIN users' :
            i # j => ~EqualIgnoringCase(users'[i].email, users'[j].email)]_vars

C19_Witness ==
    /\ res.op = "register" /\ res.status = 400 /\ res.error = "USER_EXISTS"
    /\ Cardinality(DOMAIN users) = 1
    /\ \E k \in DOMAIN inflight :
          /\ inflight[k].op = "register" /\ inflight[k].id = NoId
          /\ inflight[k].email = users[1].email


(***************************************************************************)
(* Creation of administrators: POST /api/auth/create-admin and the seed    *)
(* script, next to registration and login.                                 *)
(***************************************************************************)
\* The addresses an administrator is created with: the request body of
\* create-admin, ADMIN_EMAIL or the built-in default of the seed script.
AdminEmails == {"a@x.io", "b@x.io"}

\* User.findOne({ email, role: "admin" }) of User.createAdmin
findOneAdminByEmail(email) ==
    IF \E i \in DOMAIN users : users[i].email = email /\ users[i].role = "admin"
    THEN CHOOSE i \in DOMAIN users : users[i].email = email /\ users[i].role = "admin"
    ELSE NoId

\* seedDatabase: User.createAdmin(email, password, name), which answers the
\* administrator of that email when there is one and inserts one otherwise;
\* the insert fails on an email another identity has.
SeedDatabase(email, password) ==
    /\ UNCHANGED <<now, ticks, issued, issuedTo, bearer, tasks, treq, inflight>>
    /\ LET rq == [Reply("seed", email, 0, "") EXCEPT !.password = password] IN
       IF findOneAdminByEmail(email) # NoId
       THEN /\ res' = [rq EXCEPT !.user = findOneAdminByEmail(email)]
            /\ UNCHANGED <<users, streak>>
       ELSE IF uniqueEmailViolation(email)
       THEN /\ res' = [rq EXCEPT !.error = "SEED_ERROR"]
            /\ UNCHANGED <<users, streak>>
       ELSE /\ NextId \in DOMAIN bearer
            /\ users' = (NextId :> NewUser(email, password, "admin")) @@ users
            /\ streak' = StreakTouch(NextId, users')
            /\ res' = [rq EXCEPT !.user = NextId]

NextAdmin ==
    \/ \E d \in RaceTickSteps : Tick(d)
    \/ \E e \in NewEmails, p \in NewPasswords : Register(e, p)
    \/ \E e \in AdminEmails, p \in NewPasswords : CreateAdmin(e, p)
    \/ \E e \in AdminEmails, p \in NewPasswords : SeedDatabase(e, p)
    \/ \E e \in Emails, p \in Passwords : Login(e, p)

SpecAdmin == InitRace /\ [][NextAdmin]_vars

\* C17: in every state of the store at most one identity has role = admin,
\* whatever the order of register, create-admin and seed runs.
C17_AtMostOneAdmin ==
    Cardinality({i \in DOMAIN users : users[i].role = "admin"}) <= 1


(***************************************************************************)
(* PUT /api/auth/profile and PUT /api/auth/change-password, next to the    *)
(* routes that verify, log in and lock                                     *)
(***************************************************************************)
\* an update that takes an email change for a new, unverified address
profileUpdate_unverify(u, email) ==
    [u EXCEPT !.email = email, !.isVerified = FALSE]

\* User.findByIdAndUpdate(userId, { name, email }): of the paths of the
\* model, email
profileUpdate(u, email) == [u EXCEPT !.email = email]

\* User.findOne({ email, _id: { $ne: userId } })
emailTaken(userId, email) ==
    \E j \in DOMAIN users : j # userId /\ users[j].email = email

\* PUT /api/auth/profile: the client of slot i presents the token it holds.
UpdateProfile(i, email) ==
    /\ UNCHANGED <<now, ticks, issued, issuedTo, bearer, tasks, treq, inflight>>
    /\ LET jwt == bearer[i]
           err == authenticateToken(jwt, now)
           rq == [Reply("profile", email, 0, "") EXCEPT !.jwt = jwt]
       IN IF err # ""
          THEN /\ res' = [rq EXCEPT !.status = AuthStatus(err), !.error = err]
               /\ UNCHANGED <<users, streak>>
          ELSE IF email # users[jwt.userId].email /\ emailTaken(jwt.userId, email)
          THEN /\ res' = [rq EXCEPT !.status = 400, !.error = "EMAIL_TAKEN",
                                    !.user = jwt.userId]
               /\ UNCHANGED users
               /\ streak' = StreakTouch(jwt.userId, users)
          ELSE /\ users' = [users EXCEPT ![jwt.userId] = profileUpdate(@, email)]
               /\ streak' = StreakTouch(jwt.userId, users')
               /\ res' = [rq EXCEPT !.status = 200, !.user = jwt.userId]

\* a save that skips the hook and stores the password as it was given
savePassword_plain(u, newPassword) ==
    [u EXCEPT !.password = <<"plain", newPassword>>]

\* user.password = newPassword; user.save(): the pre-save hook replaces the
\* modified password by its bcrypt hash.
savePassword(u, newPassword) == [u EXCEPT !.password = BcryptHash(newPassword)]

\* PUT /api/auth/change-password
ChangePassword(i, currentPassword, newPassword) ==
    /\ UNCHANGED <<now, ticks, issued, issuedTo, bearer, tasks, treq, inflight>>
    /\ LET jwt == bearer[i]
           err == authenticateToken(jwt, now)
           rq == [Reply("change-password", "", 0, "") EXCEPT
                     !.password = newPassword, !.jwt = jwt]
       IN IF err # ""
          THEN /\ res' = [rq EXCEPT !.status = AuthStatus(err), !.error = err]
               /\ UNCHANGED <<users, streak>>
          ELSE IF ~comparePassword(users[jwt.userId], currentPassword)
          THEN /\ res' = [rq EXCEPT !.status = 400, !.error = "INVALID_CURRENT_PASSWORD",
                                    !.user = jwt.userId]
               /\ UNCHANGED users
               /\ streak' = StreakTouch(jwt.userId, users)
          ELSE /\ users' = [users EXCEPT ![jwt.userId] = savePassword(@, newPassword)]
               /\ streak' = StreakTouch(jwt.userId, users')
               /\ res' = [rq EXCEPT !.status = 200, !.user = jwt.userId]

NextAccount ==
    \/ \E d \in RaceTickSteps : Tick(d)
    \/ \E e \in NewEmails, p \in NewPasswords : Register(e, p)
    \/ \E e \in Emails, p \in Passwords : Login(e, p)
    \/ \E e \in Emails, t \in Tokens : VerifyEmail(e, t)
    \/ \E e \in Emails : ResendVerification(e)
    \/ \E i \in Ids, e \in Emails : UpdateProfile(i, e)
    \/ \E i \in Ids, c \in Passwords, n \in Passwords : ChangePassword(i, c, n)

SpecAccount == Init /\ [][NextAccount]_vars

\* C18: an identity that is verified stays verified across every request:
\* login with either outcome, lock and unlock, resend-verification,
\* verify-email, a profile update that changes the email, change-password.
C18_VerifiedIsTerminal ==
    [][\A i \in DOMAIN users :
         users[i].isVerified => (i \in DOMAIN users' /\ users'[i].isVerified)]_vars

C18_Witness ==
    /\ res.op = "profile" /\ res.status = 200 /\ res.email = "b@x.io"
    /\ users[res.user].email = "b@x.io"
    /\ users[res.user].isVerified
    /\ users[res.user].lockUntil # Null


\* C20: when the mailer rejects, register still answers 201 and resend 200,
\* the identity is stored with the hash of the token of that request, its
\* expiry 24 h ahead and lastVerificationSent = now; and a verify-email
\* request that presents that token to the unchanged identity before the
\* expiry verifies it.
C20_MailFailureKeepsToken ==
    [][/\ \A e \in Emails, p \in NewPasswords :
            ((Register(e, p) \/ ResendVerification(e))
               /\ res'.mailed = "failed")
              => /\ res'.status = IF res'.op = "register" THEN 201 ELSE 200
                 /\ res'.error = ""
                 /\ res'.user \in DOMAIN users'
                 /\ users'[res'.user].email = e
                 /\ issued' = issued + 1
                 /\ users'[res'.user].verifyToken = Sha256(issued')
                 /\ users'[res'.user].verifyExpires = now + VerifyExpiresInMs
                 /\ users'[res'.user].lastVerificationSent = now
       /\ \A e \in Emails :
            (res.mailed = "failed" /\ res.email = e
               /\ users[res.user].verifyExpires >= now
               /\ VerifyEmail(e, issued))
              => users'[res.user].isVerified]_vars

C20_Witness ==
    /\ res.op = "resend-verification" /\ res.status = 200 /\ res.mailed = "failed"
    /\ users[res.user].verifyToken = Sha256(issued)
    /\ users[res.user].lastVerificationSent = now
    /\ ~users[res.user].isVerified


\* C21: of two overlapping verify-email requests with the same right token
\* for one unverified identity, at most one writes the verification: a
\* request that continues when the stored identity is already verified
\* takes no write branch (res.user is set by the write branch only).
C21_TokenConsumedOnce ==
    [][\A k \in 1..MaxInflight :
         (k \in DOMAIN inflight /\ inflight[k].op = "verify-email"
            /\ inflight[k].id # NoId /\ users[inflight[k].id].isVerified
            /\ VerifySave(k))
           => res'.user = NoId]_vars


\* C22: GET /api/auth/me is answered 200 whenever authenticateToken lets the
\* request through, and carries X-New-Token exactly when it is let through
\* and the presented token has less than one day left; the header then holds
\* a token issued now for the identity of the request.  A rejected request
\* carries no header.
C22_RefreshNeverFails ==
    [][\A i \in TokenSlots :
         GetMe(i) =>
            LET jwt == bearer[i]
                passes == /\ jwt # NoJwt /\ WellSigned(jwt)
                          /\ (now \div 1000) < jwt.exp
                          /\ jwt.userId \in DOMAIN users
                          /\ users[jwt.userId].isActive
                          /\ ~(users[jwt.userId].lockUntil # Null
                                 /\ users[jwt.userId].lockUntil > now)
                lastDay == jwt.exp * 1000 - now < 24 * 60 * 60 * 1000
            IN /\ passes <=> (res'.status = 200 /\ res'.user = jwt.userId)
               /\ (res'.newToken # NoJwt) <=> (passes /\ lastDay)
               /\ res'.newToken # NoJwt =>
                    /\ res'.newToken.userId = jwt.userId
                    /\ res'.newToken.exp = (now \div 1000) + 7 * 24 * 60 * 60
                    /\ WellSigned(res'.newToken)]_vars

C22_Witness ==
    /\ res.op = "me" /\ res.status = 200 /\ res.user = 3
    /\ res.newToken # NoJwt /\ res.newToken.exp > res.jwt.exp
    /\ res.jwt.exp * 1000 - now = 24 * 60 * 60 * 1000 - 1


\* C23: on GET /api/tasks/:id a request with neither identity nor session id
\* is answered MISSING_SESSION whatever the id; otherwise a request for an
\* id no task has is answered NOT_FOUND; and ACCESS_DENIED is answered only
\* for a task that exists.
C23_FailureOrder ==
    treq.op = "get" =>
       /\ (treq.user = NoId /\ treq.sessionId = "")
             => (treq.status = 400 /\ treq.error = "MISSING_SESSION")
       /\ (~(treq.user = NoId /\ treq.sessionId = "") /\ treq.id \notin DOMAIN tasks)
             => (treq.status = 404 /\ treq.error = "NOT_FOUND")
       /\ treq.error = "ACCESS_DENIED" => treq.id \in DOMAIN tasks


(***************************************************************************)
(* Concurrent logins on one identity.  The handler reads the identity,     *)
(* other logins are served, and it continues with the document it read:    *)
(* isLocked, comparePassword and the choice of the update look at that     *)
(* document, updateOne is applied to the stored one.                       *)
(***************************************************************************)
\* incLoginAttempts of a loaded document doc, applied to the stored one:
\* $unset lockUntil and $set loginAttempts: 1, or $inc loginAttempts with
\* $set lockUntil when the loaded count reaches the threshold
incLoginAttemptsOn(stored, doc, t) ==
    IF doc.lockUntil # Null /\ doc.lockUntil < t
    THEN [stored EXCEPT !.lockUntil = Null, !.loginAttempts = 1]
    ELSE IF doc.loginAttempts + 1 >= LockThreshold /\ ~isLocked(doc, t)
         THEN [stored EXCEPT !.loginAttempts = @ + 1, !.lockUntil = t + LockDurationMs]
         ELSE [stored EXCEPT !.loginAttempts = @ + 1]

\* POST /api/auth/login, up to the answer of findOne
LoginFind(email, password) ==
    /\ Len(inflight) < MaxInflight
    /\ inflight' = Append(inflight, Request("login", email, password, 0))
    /\ UNCHANGED <<users, now, ticks, issued, issuedTo, bearer, res, streak, tasks, treq>>

\* POST /api/auth/login, from the answer of findOne on
LoginSave(k) ==
    /\ k \in DOMAIN inflight /\ inflight[k].op = "login"
    /\ inflight' = Done(k)
    /\ UNCHANGED <<now, ticks, issued, issuedTo, tasks, treq>>
    /\ LET r == inflight[k]
           u == r.doc
           rq == [Reply("login", r.email, 0, "") EXCEPT !.password = r.password]
       IN IF r.id = NoId
          THEN /\ res' = [rq EXCEPT !.status = 401, !.error = "INVALID_CREDENTIALS"]
               /\ UNCHANGED <<users, bearer, streak>>
          ELSE IF emailNotVerified(u)
          THEN /\ res' = [rq EXCEPT !.status = 403, !.error = "EMAIL_NOT_VERIFIED"]
               /\ UNCHANGED <<users, bearer, streak>>
          ELSE IF isLocked(u, now)
          THEN /\ res' = [rq EXCEPT !.status = 423, !.error = "ACCOUNT_LOCKED"]
               /\ UNCHANGED <<users, bearer, streak>>
          ELSE IF ~u.isActive
          THEN /\ res' = [rq EXCEPT !.status = 401, !.error = "ACCOUNT_DEACTIVATED"]
               /\ UNCHANGED <<users, bearer, streak>>
          ELSE IF ~comparePassword(u, r.password)
          THEN /\ users' = [users EXCEPT ![r.id] = incLoginAttemptsOn(@, u, now)]
               /\ res' = [rq EXCEPT !.status = 401, !.error = "INVALID_CREDENTIALS"]
               /\ UNCHANGED <<bearer, streak>>
          ELSE /\ users' = [users EXCEPT ![r.id] = resetLoginAttempts(@, now)]
               /\ bearer' = [bearer EXCEPT ![r.id] = generateToken(r.id, now)]
               /\ res' = [rq EXCEPT !.status = 200, !.user = r.id]
               /\ UNCHANGED streak

\* A store holding one identity that has registered and verified its email.
InitLogin ==
    /\ users = [i \in Ids |->
                  [NewUser("a@x.io", "Passw0rd", "user") EXCEPT
                      !.isVerified = TRUE, !.lastVerificationSent = 0]]
    /\ now = 0
    /\ ticks = 0
    /\ issued = 1
    /\ issuedTo = [t \in Tokens |-> IF t = 1 THEN 1 ELSE NoId]
    /\ bearer = [i \in Ids |-> generateToken(i, 0)]
    /\ res = NoRes
    /\ streak = [i \in Ids |-> -1]
    /\ tasks = <<>>
    /\ treq = NoTaskRes
    /\ inflight = <<>>

NextLoginRace ==
    \/ \E d \in RaceTickSteps : Tick(d)
    \/ \E e \in NewEmails, p \in Passwords : LoginFind(e, p)
    \/ \E k \in 1..MaxInflight : LoginSave(k)

SpecLoginRace == InitLogin /\ [][NextLoginRace]_vars

\* C24: once the lock is written, lockUntil stays as it is until it has
\* elapsed: no login request, however it overlaps with others, clears it or
\* changes it while it lies in the future.
C24_LockDurationFixed ==
    [][\A i \in DOMAIN users :
         (users[i].lockUntil # Null /\ users[i].lockUntil > now)
            => users'[i].lockUntil = users[i].lockUntil]_vars

\* C28: in every state of the store, under overlapping logins on one
\* identity, loginAttempts >= 5 implies that lockUntil is set.
C28_ThresholdNotSkipped ==
    \A i \in DOMAIN users :
       users[i].loginAttempts >= 5 => users[i].lockUntil # Null


\* C25: in every state of the store a login with a password that is not the
\* identity's, against a registered email, is answered as a login against
\* an email nobody registered is: 401 INVALID_CREDENTIALS.
C25_LoginDoesNotRevealEmail ==
    [][\A e \in Emails, p \in Passwords :
         LET id == findOneByEmail(e) IN
         ((id = NoId \/ users[id].password # BcryptHash(p)) /\ Login(e, p))
           => (res'.status = 401 /\ res'.error = "INVALID_CREDENTIALS")]_vars


\* C26: change-password with a wrong current password is answered 400
\* INVALID_CURRENT_PASSWORD and leaves the store as it is; with the right
\* one it replaces the stored hash by the hash of the new password and
\* changes nothing else, so that the new password compares equal and the
\* old one does not; and no other request changes a stored hash.
C26_ChangePassword ==
    [][/\ \A i \in Ids, c \in Passwords, n \in Passwords :
            (authenticateToken(bearer[i], now) = "" /\ ChangePassword(i, c, n))
              => LET id == bearer[i].userId IN
                 IF users[id].password # BcryptHash(c)
                 THEN /\ res'.status = 400
                      /\ res'.error = "INVALID_CURRENT_PASSWORD"
                      /\ users' = users
                 ELSE /\ res'.status = 200
                      /\ users' = [users EXCEPT ![id].password = BcryptHash(n)]
                      /\ comparePassword(users'[id], n)
                      /\ n # c => ~comparePassword(users'[id], c)
       /\ \A i \in DOMAIN users :
            users'[i].password # users[i].password
              => (res'.op = "change-password" /\ res'.status = 200 /\ res'.user = i)]_vars

C26_Witness ==
    /\ res.op = "login" /\ res.status = 200 /\ res.password = "Wr0ngPass"
    /\ users[res.user].password = BcryptHash("Wr0ngPass")
    /\ users[res.user].loginAttempts = 0


(***************************************************************************)
(* Expiry of the lock: logins on one identity, served one after the other, *)
(* and a clock that keeps advancing by the lock duration.                  *)
(***************************************************************************)
NextLock ==
    \/ \E d \in RaceTickSteps : Tick(d)
    \/ \E e \in Emails, p \in Passwords : Login(e, p)

SpecLock ==
    InitLogin /\ [][NextLock]_vars /\ WF_vars(Tick(LockDurationMs))

\* C27: a locked identity becomes Unlocked by the passing of time alone
\* (lockUntil no longer in the future, with no request having cleared it),
\* as long as the clock of the model can still advance; and a login with the
\* right password on an identity whose lock has elapsed is answered 200 and
\* resets loginAttempts and lockUntil.
C27_LockExpires ==
    /\ \A i \in Ids :
          (users[i].lockUntil # Null /\ users[i].lockUntil > now /\ ticks < MaxTicks)
             ~> (users[i].lockUntil # Null /\ users[i].lockUntil <= now)
    /\ [][\A e \in Emails, p \in Passwords :
            LET id == findOneByEmail(e) IN
            (id # NoId /\ users[id].isVerified /\ users[id].isActive
               /\ users[id].lockUntil # Null /\ users[id].lockUntil <= now
               /\ users[id].password = BcryptHash(p)
               /\ Login(e, p))
              => /\ res'.status = 200 /\ res'.user = id
                 /\ users'[id].loginAttempts = 0
                 /\ users'[id].lockUntil = Null]_vars

C27_Witness ==
    /\ users[1].lockUntil # Null /\ users[1].lockUntil < now
    /\ users[1].loginAttempts = LockThreshold
    /\ res.op = "login" /\ res.status = 423


\* C29: a task created through POST /api/tasks has exactly one of userId and
\* sessionId set, userId for an authenticated caller and sessionId otherwise,
\* whatever the body carries; and no request changes the userId or the
\* sessionId of a task that exists.
C29_OwnershipFixed ==
    [][/\ (treq'.op = "create" /\ treq'.status = 201)
            => LET task == tasks'[treq'.task] IN
               IF treq'.user # NoId
               THEN task.userId = treq'.user /\ task.sessionId = ""
               ELSE task.userId = NoId /\ task.sessionId = treq'.sessionId
                       /\ task.sessionId # ""
       /\ \A id \in DOMAIN tasks :
             /\ tasks'[id].userId = tasks[id].userId
             /\ tasks'[id].sessionId = tasks[id].sessionId]_vars

\* C30: in every task, completed holds exactly when status is "completed"
\* and exactly when completedAt is set.
C30_CompletionConsistent ==
    \A id \in DOMAIN tasks :
       /\ tasks[id].completed <=> (tasks[id].status = "completed")
       /\ tasks[id].completed <=> (tasks[id].completedAt # Null)

====
